---- MODULE Spec2Model ----
(***************************************************************************)
(* Model of the company search of indian-company-explorer:                 *)
(*   src/app/actions.ts        buildIndex (in-process index build) and      *)
(*                             searchCompanies (the search server action)   *)
(*   src/scripts/build-index.ts  buildIndex (the snapshot build script)     *)
(* Strings are sequences of one-character strings, so that toLowerCase and  *)
(* String.includes are computed and not assumed.                            *)
(***************************************************************************)
EXTENDS Integers, Sequences, FiniteSets, TLC

(***************************************************************************)
(* Bounds of the model.                                                    *)
(***************************************************************************)
NumCallers == 2      \* concurrent searchCompanies calls
MaxBuilds == 2       \* executions of buildIndex past its guard in one behaviour
BigRows == 30        \* data rows per file of the large corpus

(***************************************************************************)
(* Program constants.                                                      *)
(***************************************************************************)
MAX_MATCHES == 50    \* actions.ts:215
MIN_QUERY == 2       \* actions.ts:179
UNLIMITED == -1      \* actions.ts:182
RATE_LIMIT == 10     \* lib/auth checkRateLimit: queries per window
RATE_WINDOW == 2     \* lib/auth checkRateLimit: 24 hours, in ticks of 12 hours

Callers == 1..NumCallers
Identities == {"127.0.0.1"}

(***************************************************************************)
(* Strings.                                                                *)
(***************************************************************************)
LowerChar(ch) ==
  CASE ch = "A" -> "a"
    [] ch = "B" -> "b"
    [] ch = "C" -> "c"
    [] ch = "U" -> "u"
    [] ch = "X" -> "x"
    [] ch = "Z" -> "z"
    [] OTHER -> ch

toLowerCase(s) == [k \in 1..Len(s) |-> LowerChar(s[k])]

includes(s, q) == \E k \in 0..(Len(s) - Len(q)) : SubSeq(s, k + 1, k + Len(q)) = q

Empty == <<>>
Unknown == <<"U", "n", "k", "n", "o", "w", "n">>

\* a || b on strings: the empty string is falsy
OrElse(a, b) == IF a # Empty THEN a ELSE b

(***************************************************************************)
(* The data directory.  A row is what the row source yields for one data   *)
(* row: the cells of the name, CIN, state and status columns (Empty when    *)
(* the cell or the column is missing).                                      *)
(***************************************************************************)
Row(n, c) == [name |-> n, cin |-> c, state |-> <<"M", "H">>, status |-> <<"o", "k">>]

INDEX_NAME == "search-index.json"

SmallCorpus ==
  << [name |-> "a.csv", ext |-> "csv",
      rows |-> << Row(<<"A", "b", "c">>, <<"X", "1">>),
                  Row(Empty, <<"A", "B", "9">>),
                  Row(<<"Z", "a", "b">>, Empty) >>],
     [name |-> "b.json", ext |-> "json",
      rows |-> << Row(<<"a", "B">>, <<"X", "2">>),
                  Row(Empty, <<"a", "b", "7">>),
                  Row(<<"C", "a", "b">>, <<"X", "3">>) >>],
     [name |-> "notes.txt", ext |-> "txt", rows |-> << >>],
     [name |-> "t.csv", ext |-> "csv",
      rows |-> << Row(<<"c", "A", "B">>, <<"X", "4">>),
                  Row(<<"Z", "z">>, <<"X", "5">>) >>] >>

BigRow(k) == IF k % 9 = 0 THEN Row(<<"Z", "q">>, <<"X">>) ELSE Row(<<"A", "b">>, <<"X">>)

BigCorpus ==
  << [name |-> "a.csv", ext |-> "csv", rows |-> [k \in 1..BigRows |-> BigRow(k)]],
     [name |-> "b.xlsx", ext |-> "xlsx", rows |-> [k \in 1..BigRows |-> BigRow(k + 1)]] >>

Corpora == {SmallCorpus, BigCorpus}

FileNames == {"a.csv", "b.json", "b.xlsx", "t.csv", INDEX_NAME}

\* the reads that fail during one step: none, or those of one file
Faults == {{}} \cup {{name} : name \in FileNames}

\* the data rows that a stream has yielded when it fails: none (the file does not
\* open) or the first one (the read fails later)
FailPoints == {0, 1}

\* the queries a caller sends
Queries == { Empty, <<"b">>, <<"A", "b">>, <<"z", "z">> }

Null == [t |-> "null"]
Array(recs) == [t |-> "array", v |-> recs]
Object == [t |-> "object"]

(***************************************************************************)
(* State.                                                                  *)
(***************************************************************************)
VARIABLES
  disk,          \* the data directory: [exists, files], never modified
  snapshot,      \* the content of INDEX_FILE
  GLOBAL_INDEX,  \* actions.ts:20
  IS_INDEXING,   \* actions.ts:21
  rateLimits,    \* lib/auth: one entry per identity
  pc,            \* where each searchCompanies call stands
  call,          \* the locals of each call
  scan,          \* the locals of the buildIndex execution of each call
  resp,          \* what each caller's last call returned
  hist,          \* history: counts of builds, loads and scans, the file that failed
  env            \* the callers there are and the reads that may fail:
                 \* [callers, logins, queries, failPoints, rereadFaults], never modified

vars == <<disk, snapshot, GLOBAL_INDEX, IS_INDEXING, rateLimits, pc, call, scan, resp, hist, env>>

(***************************************************************************)
(* The snapshot file.  kind: "absent"; "array" (what the build script       *)
(* writes); "null" and "object" (valid JSON that is no array); "garbage"    *)
(* (no JSON).  sheet is what the spreadsheet reader makes of the file when   *)
(* it is read as a corpus file.                                             *)
(***************************************************************************)
NoSnapshot == [kind |-> "absent", sheet |-> << >>]
NullSnapshot == [kind |-> "null", sheet |-> << >>]
ObjectSnapshot == [kind |-> "object", sheet |-> << >>]
GarbageSnapshot == [kind |-> "garbage", sheet |-> << Row(<<"A", "b", "q">>, <<"X", "8">>) >>]

existsSync(snap) == snap.kind # "absent"

\* JSON.stringify of one index record / of the index
stringifyRecord(e) ==
  << <<"n", e.n>>, <<"c", e.c>>, <<"s", e.s>>, <<"st", e.st>>, <<"f", e.f>>, <<"i", e.i>>, <<"r", e.r>> >>

stringify(index) == [k \in 1..Len(index) |-> stringifyRecord(index[k])]

Member(obj, key) == (CHOOSE m \in {obj[k] : k \in 1..Len(obj)} : m[1] = key)[2]

parseRecord(obj) ==
  [n |-> Member(obj, "n"), c |-> Member(obj, "c"), s |-> Member(obj, "s"),
   st |-> Member(obj, "st"), f |-> Member(obj, "f"), i |-> Member(obj, "i"),
   r |-> Member(obj, "r")]

parseThrows(snap) == snap.kind = "garbage"

JSONparse(snap) ==
  CASE snap.kind = "array" -> Array([k \in 1..Len(snap.body) |-> parseRecord(snap.body[k])])
    [] snap.kind = "null" -> Null
    [] OTHER -> Object

truthy(v) == v.t # "null"

(***************************************************************************)
(* Reading the data directory.                                             *)
(***************************************************************************)
SortsAfterIndex(file) == file.name = "t.csv"
SortsBeforeIndex(file) == ~SortsAfterIndex(file)

NamesOf(files) == [k \in 1..Len(files) |-> files[k].name]

readdirSync(files, snap) ==
  IF existsSync(snap)
  THEN NamesOf(SelectSeq(files, SortsBeforeIndex)) \o <<INDEX_NAME>>
         \o NamesOf(SelectSeq(files, SortsAfterIndex))
  ELSE NamesOf(files)

FileAt(name) ==
  IF name = INDEX_NAME
  THEN [name |-> INDEX_NAME, ext |-> "json", rows |-> snapshot.sheet]
  ELSE CHOOSE f \in {disk.files[k] : k \in 1..Len(disk.files)} : f.name = name

Accepted(file) == file.ext \in {"csv", "xlsx", "xls", "json"}

(***************************************************************************)
(* Index records.                                                          *)
(***************************************************************************)
IndexRecord(file, idx, name, row) ==
  [n |-> toLowerCase(name), c |-> row.cin, s |-> row.state, st |-> row.status,
   f |-> file.name, i |-> idx, r |-> name]

Named(e) == e.r # Unknown

\* what a stream that fails after at data rows has yielded of a file
Streamed(file, at) ==
  [file EXCEPT !.rows = SubSeq(@, 1, IF at < Len(@) THEN at ELSE Len(@))]

\* a faulty CsvRecords: index++ sits inside the test of line 108, so the offset
\* counts the indexed rows only
CsvRecordsCompact(file) ==
  LET kept == SelectSeq([k \in 1..Len(file.rows) |->
                           IndexRecord(file, k - 1, OrElse(file.rows[k].name, Unknown), file.rows[k])],
                        Named)
  IN [j \in 1..Len(kept) |-> [kept[j] EXCEPT !.i = j - 1]]

\* actions.ts: the delimited-text branch of the scan
CsvRecords(file) ==
  SelectSeq([k \in 1..Len(file.rows) |->
               IndexRecord(file, k - 1, OrElse(file.rows[k].name, Unknown), file.rows[k])],
            Named)

\* actions.ts: the spreadsheet/JSON branch of the scan
BatchRecords(file) ==
  [k \in 1..Len(file.rows) |->
     IndexRecord(file, k - 1, OrElse(file.rows[k].name, Unknown), file.rows[k])]

(***************************************************************************)
(* buildIndex of actions.ts, from line 57: the files are walked in the      *)
(* order of the listing.  A spreadsheet/JSON file is read synchronously; a   *)
(* delimited-text file is streamed (for await), which suspends the build.    *)
(* RunSync runs from position pos up to the next suspension: it ends        *)
(* "await" in front of a delimited-text file, "failed" when a read throws    *)
(* (caught at line 146) and "done" after the last file.  bad is the set of   *)
(* files whose read fails this time.                                        *)
(***************************************************************************)
RECURSIVE RunSync(_, _, _, _)
RunSync(names, pos, newIndex, bad) ==
  IF pos > Len(names) THEN [status |-> "done", pos |-> pos, newIndex |-> newIndex]
  ELSE LET file == FileAt(names[pos]) IN
    IF ~Accepted(file) THEN RunSync(names, pos + 1, newIndex, bad)
    ELSE IF file.ext = "csv" THEN [status |-> "await", pos |-> pos, newIndex |-> newIndex]
    ELSE IF file.name \in bad THEN [status |-> "failed", pos |-> pos, newIndex |-> newIndex]
    ELSE RunSync(names, pos + 1, newIndex \o BatchRecords(file), bad)

\* the delimited-text file at pos has been streamed to its end, or has failed
AfterCsv(names, pos, newIndex, bad, at) ==
  LET file == FileAt(names[pos]) IN
    IF file.name \in bad
    THEN [status |-> "failed", pos |-> pos,
          newIndex |-> newIndex \o CsvRecords(Streamed(file, at))]
    ELSE RunSync(names, pos + 1, newIndex \o CsvRecords(file), bad)

(***************************************************************************)
(* buildIndex of scripts/build-index.ts.                                   *)
(***************************************************************************)
ScriptCsvRecords(file) ==
  SelectSeq([k \in 1..Len(file.rows) |->
               IndexRecord(file, k - 1, OrElse(file.rows[k].name, Unknown), file.rows[k])],
            Named)

ScriptBatchRecords(file) ==
  [k \in 1..Len(file.rows) |->
     IndexRecord(file, k - 1, OrElse(file.rows[k].name, Unknown), file.rows[k])]

ScriptSkips(file) == ~Accepted(file) \/ file.name = INDEX_NAME

RECURSIVE ScriptScan(_, _, _)
ScriptScan(names, pos, newIndex) ==
  IF pos > Len(names) THEN newIndex
  ELSE LET file == FileAt(names[pos]) IN
    IF ScriptSkips(file) THEN ScriptScan(names, pos + 1, newIndex)
    ELSE IF file.ext = "csv" THEN ScriptScan(names, pos + 1, newIndex \o ScriptCsvRecords(file))
    ELSE ScriptScan(names, pos + 1, newIndex \o ScriptBatchRecords(file))

\* the files the script reads
ScriptReads(names) == {names[k] : k \in {j \in 1..Len(names) : ~ScriptSkips(FileAt(names[j]))}}

writeFileSync(newIndex) == [kind |-> "array", body |-> stringify(newIndex), sheet |-> << >>]

(***************************************************************************)
(* searchCompanies, lines 208-227: matching and grouping.                  *)
(***************************************************************************)
EntryMatches(entry, lowerQuery) ==
  \/ includes(entry.n, lowerQuery)
  \/ entry.c # Empty /\ includes(toLowerCase(entry.c), lowerQuery)

\* a faulty MatchedEntries: the loop is left one match late (> for >=)
MatchedEntriesLate(index, query) ==
  LET lowerQuery == toLowerCase(query)
      all == SelectSeq(index, LAMBDA entry : EntryMatches(entry, lowerQuery))
  IN IF Len(all) > MAX_MATCHES THEN SubSeq(all, 1, MAX_MATCHES + 1) ELSE all

\* lines 212-217: the entries that match are pushed in index order, and the loop
\* is left when MAX_MATCHES have been pushed
MatchedEntries(index, query) ==
  LET lowerQuery == toLowerCase(query)
      all == SelectSeq(index, LAMBDA entry : EntryMatches(entry, lowerQuery))
  IN IF Len(all) >= MAX_MATCHES THEN SubSeq(all, 1, MAX_MATCHES) ELSE all

\* lines 221-227: a Map keeps its keys in the order of their insertion
FirstOfFile(matchedEntries, k) == \A j \in 1..(k - 1) : matchedEntries[j].f # matchedEntries[k].f

IndicesOf(matchedEntries, name) ==
  LET own == SelectSeq(matchedEntries, LAMBDA match : match.f = name)
  IN [k \in 1..Len(own) |-> own[k].i]

MatchesByFile(matchedEntries) ==
  LET first == SelectSeq([k \in 1..Len(matchedEntries) |-> k],
                         LAMBDA k : FirstOfFile(matchedEntries, k))
  IN [g \in 1..Len(first) |->
        [file |-> matchedEntries[first[g]].f,
         indices |-> IndicesOf(matchedEntries, matchedEntries[first[g]].f)]]

(***************************************************************************)
(* searchCompanies, lines 229-307: the rows of the matched locators are     *)
(* read back from the files.                                                *)
(***************************************************************************)
Company(name, idx, row) ==
  [id |-> <<name, idx>>, name |-> OrElse(row.name, Unknown), state |-> row.state,
   cin |-> row.cin, status |-> row.status]

SeqToSet(s) == {s[k] : k \in 1..Len(s)}

\* lines 236-282: the file is walked in row order
CsvDetails(file, indices) ==
  LET targetIndices == SeqToSet(indices)
      wanted == SelectSeq([k \in 1..Len(file.rows) |-> k - 1],
                          LAMBDA currentIndex : currentIndex \in targetIndices)
  IN [k \in 1..Len(wanted) |-> Company(file.name, wanted[k], file.rows[wanted[k] + 1])]

\* a faulty BatchDetails: the matches of a file are walked last to first
BatchDetailsReversed(file, indices) ==
  LET present == SelectSeq(indices, LAMBDA idx : idx + 1 \in 1..Len(file.rows))
  IN [k \in 1..Len(present) |->
        Company(file.name, present[Len(present) + 1 - k], file.rows[present[Len(present) + 1 - k] + 1])]

\* lines 284-302: the rows are taken in the order of the matches
BatchDetails(file, indices) ==
  LET present == SelectSeq(indices, LAMBDA idx : idx + 1 \in 1..Len(file.rows))
  IN [k \in 1..Len(present) |-> Company(file.name, present[k], file.rows[present[k] + 1])]

\* lines 231-307: the rows pushed for one file; a read that throws is caught at
\* line 304, after the rows that the stream had yielded were pushed at line 272
FileDetails(group, bad, at) ==
  LET file == FileAt(group.file) IN
    IF file.ext = "csv"
    THEN CsvDetails(IF group.file \in bad THEN Streamed(file, at) ELSE file, group.indices)
    ELSE IF group.file \in bad THEN << >>
    ELSE BatchDetails(file, group.indices)

RECURSIVE DetailsFrom(_, _, _, _, _)
DetailsFrom(matchesByFile, g, results, bad, at) ==
  IF g > Len(matchesByFile) THEN results
  ELSE DetailsFrom(matchesByFile, g + 1, results \o FileDetails(matchesByFile[g], bad, at),
                   bad, at)

Details(matchesByFile, bad, at) == DetailsFrom(matchesByFile, 1, << >>, bad, at)

(***************************************************************************)
(* checkRateLimit of lib/auth: one entry per identity, RATE_LIMIT queries   *)
(* in a window of RATE_WINDOW that starts with the first query counted.     *)
(* An entry holds the count and, for its window start, the time that has     *)
(* passed since (age = now - start); count = 0 stands for no entry.          *)
(***************************************************************************)
NoEntry == [count |-> 0, age |-> 0]

checkRateLimit(entry) ==
  IF entry.count = 0 \/ entry.age >= RATE_WINDOW
  THEN [entry |-> [count |-> 1, age |-> 0], allowed |-> TRUE, remaining |-> RATE_LIMIT - 1]
  ELSE IF entry.count >= RATE_LIMIT
       THEN [entry |-> entry, allowed |-> FALSE, remaining |-> 0]
       ELSE [entry |-> [entry EXCEPT !.count = @ + 1], allowed |-> TRUE,
             remaining |-> RATE_LIMIT - (entry.count + 1)]

(***************************************************************************)
(* The calls.                                                              *)
(***************************************************************************)
NoLimit == [allowed |-> TRUE, remaining |-> 0, k |-> 0]

BlankCall ==
  [query |-> Empty, priv |-> FALSE, ip |-> "127.0.0.1", remaining |-> UNLIMITED,
   limit |-> NoLimit, observed |-> "none", usedIndex |-> FALSE, touched |-> {},
   matched |-> << >>, groups |-> << >>, unread |-> {}]

BlankScan == [names |-> << >>, pos |-> 0, newIndex |-> << >>]

NoResp == [none |-> TRUE]

\* a faulty ShortCircuits: only the empty query leaves early
ShortCircuitsEmptyOnly(query) == Len(query) < 1

\* line 179
ShortCircuits(query) == Len(query) < MIN_QUERY

\* lines 190-195
RateLimitExceeded ==
  [results |-> << >>, error |-> "Free search limit exceeded (10/day)", remaining |-> 0,
   isPremium |-> FALSE]

\* line 206
NoIndex == [results |-> << >>]

\* lines 309-313
Found(results, remaining, isLoggedIn) ==
  [results |-> results, remaining |-> remaining, isPremium |-> isLoggedIn]

\* lines 314-317
SearchFailed == [thrown |-> "Search failed"]

\* a faulty GateTarget: the early return of line 190 is missing
GateTargetNoReturn(allowed) == "ensure"

\* lines 189-198: a caller that is not allowed leaves at once
GateTarget(allowed) == IF allowed THEN "ensure" ELSE "done"

\* line 26
BuildGuard(index, indexing) == truthy(index) \/ indexing

\* the data directories and the snapshot files a process may start with
Disks == {[exists |-> FALSE, files |-> << >>]} \cup {[exists |-> TRUE, files |-> c] : c \in Corpora}

Snapshots == {NoSnapshot, NullSnapshot, ObjectSnapshot, GarbageSnapshot}

\* one caller at a time, logged in or not, over any data directory, with reads
\* that fail in the build and in the detail resolution, at any of FailPoints; or
\* overlapping callers that are logged in and send the same query, over the
\* small corpus, with reads that fail in the build only, on opening
Scenarios ==
  { [env |-> [callers |-> {1}, logins |-> BOOLEAN, queries |-> Queries,
              failPoints |-> FailPoints, rereadFaults |-> Faults],
     disks |-> Disks],
    [env |-> [callers |-> Callers, logins |-> {TRUE}, queries |-> {<<"A", "b">>},
              failPoints |-> {0}, rereadFaults |-> {{}}],
     disks |-> {d \in Disks : d.files # BigCorpus}] }

Init ==
  /\ \E sc \in Scenarios : env = sc.env /\ disk \in sc.disks
  /\ snapshot \in IF disk.exists THEN Snapshots ELSE {NoSnapshot}
  /\ GLOBAL_INDEX = Null
  /\ IS_INDEXING = FALSE
  /\ rateLimits = [ip \in Identities |-> NoEntry]
  /\ pc = [p \in Callers |-> "idle"]
  /\ call = [p \in Callers |-> BlankCall]
  /\ scan = [p \in Callers |-> BlankScan]
  /\ resp = [p \in Callers |-> NoResp]
  /\ hist = [builds |-> 0, finished |-> 0, loads |-> 0, scans |-> 0, origin |-> "none",
             failed |-> {}]

\* searchCompanies(query) is called: lines 178-181
Call(p, query, isLoggedIn, ip) ==
  /\ pc[p] = "idle"
  /\ p \in env.callers /\ isLoggedIn \in env.logins /\ query \in env.queries
  /\ hist.builds < MaxBuilds
  /\ call' = [call EXCEPT ![p] = [BlankCall EXCEPT !.query = query, !.priv = isLoggedIn, !.ip = ip]]
  /\ IF ShortCircuits(query)
     THEN /\ pc' = [pc EXCEPT ![p] = "done"]
          /\ resp' = [resp EXCEPT ![p] = NoIndex]
     ELSE /\ pc' = [pc EXCEPT ![p] = "gate"]
          /\ resp' = [resp EXCEPT ![p] = NoResp]
  /\ UNCHANGED <<disk, snapshot, GLOBAL_INDEX, IS_INDEXING, rateLimits, scan, hist, env>>

\* lines 182-198
Gate(p) ==
  /\ pc[p] = "gate"
  /\ IF call[p].priv
     THEN /\ pc' = [pc EXCEPT ![p] = "ensure"]
          /\ UNCHANGED <<rateLimits, call, resp>>
     ELSE LET limit == checkRateLimit(rateLimits[call[p].ip]) IN
          /\ rateLimits' = [rateLimits EXCEPT ![call[p].ip] = limit.entry]
          /\ pc' = [pc EXCEPT ![p] = GateTarget(limit.allowed)]
          /\ resp' = [resp EXCEPT ![p] = IF pc'[p] = "done" THEN RateLimitExceeded ELSE @]
          /\ call' = [call EXCEPT ![p].touched = @ \cup {"rate"},
                                  ![p].remaining = IF limit.allowed THEN limit.remaining ELSE @,
                                  ![p].limit = [allowed |-> limit.allowed,
                                                remaining |-> limit.remaining,
                                                k |-> IF limit.allowed THEN limit.entry.count
                                                      ELSE limit.entry.count + 1]]
  /\ UNCHANGED <<disk, snapshot, GLOBAL_INDEX, IS_INDEXING, scan, hist, env>>

\* lines 206-227, with the index as the call finds it; c is the call's record
Search(p, c) ==
  IF GLOBAL_INDEX.t = "object"
  THEN /\ pc' = [pc EXCEPT ![p] = "done"]
       /\ resp' = [resp EXCEPT ![p] = SearchFailed]
       /\ call' = [call EXCEPT ![p] = [c EXCEPT !.touched = @ \cup {"index"}]]
  ELSE LET matchedEntries == MatchedEntries(GLOBAL_INDEX.v, c.query) IN
       /\ pc' = [pc EXCEPT ![p] = "resolve"]
       /\ resp' = resp
       /\ call' = [call EXCEPT ![p] = [c EXCEPT !.touched = @ \cup {"index"},
                                                !.usedIndex = TRUE,
                                                !.matched = matchedEntries,
                                                !.groups = MatchesByFile(matchedEntries)]]

\* history: where the resident index comes from
Origin(status, before) ==
  CASE status = "done" -> "scan"
    [] status = "failed" -> "scanFailed"
    [] OTHER -> before

\* history: the file whose read threw into the catch of line 146
FailedFile(r, names) == IF r.status = "failed" THEN {names[r.pos]} ELSE {}

\* buildIndex has run to its end: lines 150-151
FinishBuild(p, newIndex) ==
  /\ GLOBAL_INDEX' = Array(newIndex)
  /\ IS_INDEXING' = FALSE
  /\ scan' = [scan EXCEPT ![p] = BlankScan]
  /\ pc' = [pc EXCEPT ![p] = "afterBuild"]

\* buildIndex is suspended in front of a delimited-text file
Suspend(p, r, names) ==
  /\ GLOBAL_INDEX' = GLOBAL_INDEX
  /\ IS_INDEXING' = TRUE
  /\ scan' = [scan EXCEPT ![p] = [names |-> names, pos |-> r.pos, newIndex |-> r.newIndex]]
  /\ pc' = [pc EXCEPT ![p] = "scanning"]

\* lines 200-204 and buildIndex up to its first suspension
Ensure(p) ==
  /\ pc[p] = "ensure"
  /\ UNCHANGED <<disk, snapshot, rateLimits, env>>
  /\ IF truthy(GLOBAL_INDEX)
     THEN /\ Search(p, [call[p] EXCEPT !.observed = "Ready"])
          /\ UNCHANGED <<GLOBAL_INDEX, IS_INDEXING, scan, hist>>
     ELSE IF BuildGuard(GLOBAL_INDEX, IS_INDEXING)
     THEN /\ pc' = [pc EXCEPT ![p] = "afterBuild"]
          /\ call' = [call EXCEPT ![p].observed = "Building"]
          /\ UNCHANGED <<GLOBAL_INDEX, IS_INDEXING, scan, resp, hist>>
     ELSE \E bad \in Faults :
          /\ call' = [call EXCEPT ![p].observed = IF IS_INDEXING THEN "Building" ELSE "Empty",
                                  ![p].touched = @ \cup {"build"}]
          /\ resp' = resp
          /\ IF existsSync(snapshot) /\ INDEX_NAME \notin bad /\ ~parseThrows(snapshot)
             THEN \* lines 30-37
                  /\ GLOBAL_INDEX' = JSONparse(snapshot)
                  /\ IS_INDEXING' = FALSE
                  /\ scan' = scan
                  /\ pc' = [pc EXCEPT ![p] = "afterBuild"]
                  /\ hist' = [hist EXCEPT !.builds = @ + 1, !.finished = @ + 1,
                                          !.loads = @ + 1, !.origin = "load"]
             ELSE IF ~disk.exists
             THEN \* lines 49-53
                  /\ GLOBAL_INDEX' = Array(<< >>)
                  /\ IS_INDEXING' = TRUE
                  /\ scan' = scan
                  /\ pc' = [pc EXCEPT ![p] = "afterBuild"]
                  /\ hist' = [hist EXCEPT !.builds = @ + 1, !.finished = @ + 1,
                                          !.loads = @ + (IF existsSync(snapshot) THEN 1 ELSE 0),
                                          !.origin = "nodir"]
             ELSE LET names == readdirSync(disk.files, snapshot)
                      r == RunSync(names, 1, << >>, bad)
                  IN /\ IF r.status = "await"
                        THEN Suspend(p, r, names)
                        ELSE FinishBuild(p, r.newIndex)
                     /\ hist' = [hist EXCEPT !.builds = @ + 1,
                                   !.finished = @ + (IF r.status = "await" THEN 0 ELSE 1),
                                   !.loads = @ + (IF existsSync(snapshot) THEN 1 ELSE 0),
                                   !.scans = @ + 1,
                                   !.origin = Origin(r.status, @),
                                   !.failed = FailedFile(r, names)]

\* the stream of the delimited-text file has ended or failed: lines 70-145
ScanStep(p) ==
  /\ pc[p] = "scanning"
  /\ \E bad \in Faults, at \in env.failPoints :
       LET r == AfterCsv(scan[p].names, scan[p].pos, scan[p].newIndex, bad, at) IN
       /\ IF r.status = "await"
          THEN Suspend(p, r, scan[p].names)
          ELSE FinishBuild(p, r.newIndex)
       /\ hist' = [hist EXCEPT !.finished = @ + (IF r.status = "await" THEN 0 ELSE 1),
                               !.origin = Origin(r.status, @),
                               !.failed = FailedFile(r, scan[p].names)]
  /\ UNCHANGED <<disk, snapshot, rateLimits, call, resp, env>>

\* await buildIndex() has resolved: line 206
AfterBuild(p) ==
  /\ pc[p] = "afterBuild"
  /\ IF ~truthy(GLOBAL_INDEX)
     THEN /\ pc' = [pc EXCEPT ![p] = "done"]
          /\ resp' = [resp EXCEPT ![p] = NoIndex]
          /\ call' = call
     ELSE Search(p, call[p])
  /\ UNCHANGED <<disk, snapshot, GLOBAL_INDEX, IS_INDEXING, rateLimits, scan, hist, env>>

\* lines 229-313
Resolve(p) ==
  /\ pc[p] = "resolve"
  /\ \E bad \in env.rereadFaults, at \in env.failPoints :
       /\ resp' = [resp EXCEPT ![p] =
                     Found(Details(call[p].groups, bad, at), call[p].remaining, call[p].priv)]
       /\ call' = [call EXCEPT ![p].touched = @ \cup (IF call[p].groups = << >> THEN {} ELSE {"disk"}),
                               ![p].unread = bad \cap {call[p].groups[g].file :
                                                         g \in 1..Len(call[p].groups)}]
  /\ pc' = [pc EXCEPT ![p] = "done"]
  /\ UNCHANGED <<disk, snapshot, GLOBAL_INDEX, IS_INDEXING, rateLimits, scan, hist, env>>

\* the caller has its answer
Return(p) ==
  /\ pc[p] = "done"
  /\ pc' = [pc EXCEPT ![p] = "idle"]
  /\ call' = [call EXCEPT ![p] = BlankCall]
  /\ resp' = [resp EXCEPT ![p] = NoResp]
  /\ UNCHANGED <<disk, snapshot, GLOBAL_INDEX, IS_INDEXING, rateLimits, scan, hist, env>>

\* scripts/build-index.ts is run
RunBuildScript ==
  /\ disk.exists
  /\ \E bad \in Faults :
       LET names == readdirSync(disk.files, snapshot) IN
       /\ ScriptReads(names) \cap bad = {}
       /\ snapshot' = writeFileSync(ScriptScan(names, 1, << >>))
  /\ UNCHANGED <<disk, GLOBAL_INDEX, IS_INDEXING, rateLimits, pc, call, scan, resp, hist, env>>

\* twelve hours pass: every window that has not yet elapsed grows older
Tick ==
  /\ \E ip \in Identities : rateLimits[ip].count > 0 /\ rateLimits[ip].age < RATE_WINDOW
  /\ rateLimits' = [ip \in Identities |->
                      IF rateLimits[ip].count > 0 /\ rateLimits[ip].age < RATE_WINDOW
                      THEN [rateLimits[ip] EXCEPT !.age = @ + 1]
                      ELSE rateLimits[ip]]
  /\ UNCHANGED <<disk, snapshot, GLOBAL_INDEX, IS_INDEXING, pc, call, scan, resp, hist, env>>

Next ==
  \/ \E p \in Callers, query \in Queries, isLoggedIn \in BOOLEAN, ip \in Identities :
       Call(p, query, isLoggedIn, ip)
  \/ \E p \in Callers : Gate(p)
  \/ \E p \in Callers : Ensure(p)
  \/ \E p \in Callers : ScanStep(p)
  \/ \E p \in Callers : AfterBuild(p)
  \/ \E p \in Callers : Resolve(p)
  \/ \E p \in Callers : Return(p)
  \/ RunBuildScript
  \/ Tick

Spec == Init /\ [][Next]_vars

(***************************************************************************)
(* Claims.                                                                 *)
(***************************************************************************)
Answered(p) == pc[p] = "done"

ValidQuery(p) == Len(call[p].query) >= 2

\* C1: every caller of overlapping searchCompanies calls that finds the index
\* being built waits for the build and answers from the built record set: no
\* such caller has its answer without having matched against the record set.
C1_CallersWaitForReady ==
  \A p \in Callers :
    (Answered(p) /\ call[p].observed = "Building") => call[p].usedIndex

\* C2: at most one index build is in flight at any time, and at most one build
\* execution (snapshot load or corpus scan) happens in the life of the process.
C2_SingleBuild ==
  /\ Cardinality({p \in Callers : pc[p] = "scanning"}) <= 1
  /\ hist.builds <= 1

\* C3: a call whose query is empty or shorter than 2 returns at once with an
\* empty result list and nothing else, and leaves the rate limiter's entries,
\* the index, the build flag and the files alone, whoever calls and whatever
\* the state of the index.
C3_ShortQueryNoEffect ==
  [][\A p \in Callers :
       (pc[p] = "idle" /\ pc'[p] # "idle" /\ Len(call'[p].query) < 2)
         => /\ pc'[p] = "done"
            /\ resp'[p] = [results |-> << >>]
            /\ call'[p].touched = {}
            /\ UNCHANGED <<rateLimits, GLOBAL_INDEX, IS_INDEXING, scan, hist, snapshot, disk>>]_vars

C3_Witness ==
  \E p \in Callers :
    /\ Answered(p) /\ Len(call[p].query) = 1 /\ ~call[p].priv
    /\ resp[p] = [results |-> << >>]
    /\ rateLimits[call[p].ip].count > 0
    /\ truthy(GLOBAL_INDEX)

\* C4: when the rate limiter does not allow a caller that is not logged in, the
\* call returns (it does not throw) results = [], an error message and
\* remaining = 0, in the very step of the check: no build is started, the index
\* and the build flag are unchanged and no file is read.
C4_DeniedBeforeIndexWork ==
  [][\A p \in Callers :
       (pc[p] = "gate" /\ pc'[p] # "gate" /\ ~call[p].priv
          /\ ~checkRateLimit(rateLimits[call[p].ip]).allowed)
         => /\ pc'[p] = "done"
            /\ DOMAIN resp'[p] = {"results", "error", "remaining", "isPremium"}
            /\ resp'[p].results = << >>
            /\ resp'[p].remaining = 0
            /\ call'[p].touched = {"rate"}
            /\ UNCHANGED <<GLOBAL_INDEX, IS_INDEXING, scan, hist, snapshot, disk>>]_vars

C4_Witness ==
  \E p \in Callers :
    /\ Answered(p) /\ ~call[p].priv /\ ~call[p].limit.allowed
    /\ call[p].limit.k = 11
    /\ resp[p].remaining = 0 /\ resp[p].results = << >>
    /\ "error" \in DOMAIN resp[p]
    /\ truthy(GLOBAL_INDEX)

\* C5: the k-th query (k = 1..10, length >= 2) of an identity that is not logged
\* in, inside one window, is allowed and its response reports remaining = 10 - k,
\* with or without matches; the 11th is denied with remaining = 0; the first
\* query after the window has elapsed reports remaining = 9.
C5_RemainingReported ==
  \A p \in Callers :
    (Answered(p) /\ ~call[p].priv /\ ValidQuery(p) /\ "thrown" \notin DOMAIN resp[p])
      => /\ "remaining" \in DOMAIN resp[p]
         /\ call[p].limit.k \in 1..10 => resp[p].remaining = 10 - call[p].limit.k
         /\ call[p].limit.k = 11 => resp[p].remaining = 0
         /\ call[p].limit.k \in 1..11

\* what the specification calls a match: name_lower contains the lowercased
\* query, or the case-folded identifier contains it
ClaimMatch(entry, query) ==
  \/ includes(entry.n, toLowerCase(query))
  \/ includes(toLowerCase(entry.c), toLowerCase(query))

MatchingPositions(index, query) == {k \in 1..Len(index) : ClaimMatch(index[k], query)}

FirstFifty(index, query) ==
  LET all == MatchingPositions(index, query)
  IN {k \in all : Cardinality({j \in all : j < k}) < 50}

Locator(entry) == <<entry.f, entry.i>>

RowLocators(results) == {results[k].id : k \in 1..Len(results)}

\* the locator is read back: its file is read and holds a row at the offset
ReadBack(p, entry) == entry.f \notin call[p].unread /\ entry.i < Len(FileAt(entry.f).rows)

Searched(p) == Answered(p) /\ call[p].usedIndex

\* C6, as claimed: when at least 51 records of the Ready record set match, the
\* search returns exactly 50 rows, the rows of the first 50 matching records in
\* index order.
C6_ExactlyFiftyRows ==
  \A p \in Callers :
    (Searched(p) /\ Cardinality(MatchingPositions(GLOBAL_INDEX.v, call[p].query)) >= 51)
      => /\ Len(resp[p].results) = 50
         /\ RowLocators(resp[p].results) =
              {Locator(GLOBAL_INDEX.v[k]) : k \in FirstFifty(GLOBAL_INDEX.v, call[p].query)}

\* C6, amended: when at least 51 records match, exactly the first 50 matching
\* records in index order are matched; the rows returned are the rows of those
\* of the 50 only, each once, among them every one whose locator is read back,
\* so exactly 50 rows when every one is read back.
C6_FirstFiftyMatched ==
  \A p \in Callers :
    (Searched(p) /\ Cardinality(MatchingPositions(GLOBAL_INDEX.v, call[p].query)) >= 51)
      => LET index == GLOBAL_INDEX.v
             first == FirstFifty(index, call[p].query)
             order == SelectSeq([k \in 1..Len(index) |-> k], LAMBDA k : k \in first)
             back == {k \in first : ReadBack(p, index[k])}
         IN /\ call[p].matched = [j \in 1..Len(order) |-> index[order[j]]]
            /\ Len(call[p].matched) = 50
            /\ {Locator(index[k]) : k \in back} \subseteq RowLocators(resp[p].results)
            /\ RowLocators(resp[p].results) \subseteq {Locator(index[k]) : k \in first}
            /\ Len(resp[p].results) = Cardinality(RowLocators(resp[p].results))
            /\ (back = first => Len(resp[p].results) = 50)

C6_Witness ==
  \E p \in Callers :
    /\ Searched(p)
    /\ Cardinality(MatchingPositions(GLOBAL_INDEX.v, call[p].query)) >= 51
    /\ Len(resp[p].results) = 50
    /\ Len(call[p].groups) = 2
    /\ call[p].unread = {}

\* C7: a call of a logged-in caller (query length >= 2) never consults the rate
\* limiter and is never denied, and its response reports remaining = -1 with
\* isPremium = true.
C7_PrivilegedUnlimited ==
  \A p \in Callers :
    (Answered(p) /\ call[p].priv /\ ValidQuery(p) /\ "thrown" \notin DOMAIN resp[p])
      => /\ "rate" \notin call[p].touched
         /\ "error" \notin DOMAIN resp[p]
         /\ "remaining" \in DOMAIN resp[p] /\ resp[p].remaining = -1
         /\ "isPremium" \in DOMAIN resp[p] /\ resp[p].isPremium = TRUE

\* the record set a process loads from the snapshot the build script writes
RoundTrip == JSONparse(writeFileSync(ScriptScan(readdirSync(disk.files, snapshot), 1, << >>)))

\* C8: the record set that the build script writes and the search process
\* reloads gives, for every query, the same matches as the record set of the
\* in-process fallback scan (run to its end without a failed read) of the same
\* data directory.
C8_RoundTripEqualsRescan ==
  hist.origin = "scan"
    => \A query \in Queries :
         MatchedEntries(GLOBAL_INDEX.v, query) = MatchedEntries(RoundTrip.v, query)

\* C9: once a build execution has run to its end, no later step loads the
\* snapshot, starts a scan or replaces the record set.
C9_ReadyAbsorbing ==
  [][hist.finished >= 1
       => /\ hist'.loads = hist.loads
          /\ hist'.scans = hist.scans
          /\ hist'.builds = hist.builds
          /\ GLOBAL_INDEX' = GLOBAL_INDEX]_vars

\* C10: the rows of one search are grouped by source file; the blocks come in
\* the order in which the files are first met among the matched records; inside
\* a block the row offsets increase.
FirstMatchOf(matchedEntries, name) ==
  CHOOSE k \in 1..Len(matchedEntries) :
    /\ matchedEntries[k].f = name
    /\ \A j \in 1..(k - 1) : matchedEntries[j].f # name

C10_GroupedInOrder ==
  \A p \in Callers :
    Searched(p)
      => LET rows == resp[p].results IN
         \A a, b \in 1..Len(rows) :
           a < b =>
             /\ rows[a].id[1] = rows[b].id[1] =>
                  /\ rows[a].id[2] < rows[b].id[2]
                  /\ \A c \in a..b : rows[c].id[1] = rows[a].id[1]
             /\ rows[a].id[1] # rows[b].id[1] =>
                  FirstMatchOf(call[p].matched, rows[a].id[1])
                    < FirstMatchOf(call[p].matched, rows[b].id[1])

C10_Witness ==
  \E p \in Callers :
    /\ Searched(p)
    /\ LET rows == resp[p].results IN
       /\ Len(rows) = 6
       /\ rows[1].id = <<"a.csv", 0>> /\ rows[2].id = <<"a.csv", 2>>
       /\ rows[3].id = <<"b.json", 0>> /\ rows[5].id = <<"b.json", 2>>
       /\ rows[6].id = <<"t.csv", 0>>

\* C11: when the read of one matched file fails while the rows are resolved, the
\* search returns normally, no row of that file is in the result, and the rows
\* of the other files are those of a resolution without any failure, in the
\* same order.
OfUnreadFile(p, row) == row.id[1] \in call[p].unread

C11_FailedFileOmitted ==
  \A p \in Callers :
    (Searched(p) /\ call[p].unread # {})
      => /\ "results" \in DOMAIN resp[p]
         /\ \A k \in 1..Len(resp[p].results) : ~OfUnreadFile(p, resp[p].results[k])
         /\ resp[p].results =
              SelectSeq(Details(call[p].groups, {}, 0), LAMBDA row : ~OfUnreadFile(p, row))

\* the records a scan makes of one accepted file
RecordsOf(file) == IF file.ext = "csv" THEN CsvRecords(file) ELSE BatchRecords(file)

\* the listing that the scan walked
Listing == readdirSync(disk.files, snapshot)

\* C12: when the read of one file fails during a scan, the scan goes on: the
\* rows of every accepted file that comes after the failing file in the listing
\* are in the record set that the scan leaves.
C12_ScanContinues ==
  hist.origin = "scanFailed"
    => \A a, b \in 1..Len(Listing) :
         (Listing[a] \in hist.failed /\ a < b /\ Accepted(FileAt(Listing[b])))
           => SeqToSet(RecordsOf(FileAt(Listing[b]))) \subseteq SeqToSet(GLOBAL_INDEX.v)

\* no buildIndex execution is under way
NoBuildInFlight == hist.finished = hist.builds

\* C13: whatever the snapshot file and the data directory are, an ensure-ready
\* that started from Empty and has run to its end leaves the state Ready (a
\* record set is resident): the process is not left Empty, where the next query
\* would load or scan again, nor Building with no build under way.
C13_BuildEndsReady ==
  (hist.builds >= 1 /\ NoBuildInFlight) => truthy(GLOBAL_INDEX)

\* C14: when a read throws during the corpus scan, the scan leaves the state
\* Ready with an empty record set: no record collected before the failure is
\* resident.
C14_FailedScanLeavesEmptySet ==
  hist.origin = "scanFailed" => GLOBAL_INDEX = Array(<< >>)

\* C15: a snapshot file that is absent, is no JSON, or is JSON but no sequence
\* of index records never becomes the resident record set: the ensure-ready
\* that finds it ends by the corpus scan (or by the missing directory), not by
\* the load, and no search throws.  (The snapshot file changes only by the
\* build script, which writes a sequence of records.)
C15_InvalidSnapshotRescanned ==
  /\ GLOBAL_INDEX.t # "object"
  /\ \A p \in Callers : "thrown" \notin DOMAIN resp[p]
  /\ (snapshot.kind # "array" /\ hist.builds >= 1 /\ NoBuildInFlight) => hist.origin # "load"

\* the file is as it was when it was scanned: the files of the data directory
\* never change, the snapshot file changes when the build script writes it
Unmodified(name) == name # INDEX_NAME \/ snapshot.kind = "garbage"

\* the record points at the data row it was built from
Aligned(e) ==
  LET file == FileAt(e.f) IN
    /\ e.i \in 0..(Len(file.rows) - 1)
    /\ e.r = OrElse(file.rows[e.i + 1].name, Unknown)
    /\ e.n = toLowerCase(e.r)
    /\ e.c = file.rows[e.i + 1].cin

\* C16: the row offset of every resident record is the 0-based position of its
\* row among all the data rows of its file, the rows left out of the index
\* counted; and a search reads back, for every matched record whose file is
\* read without failure, the row the record was built from.
C16_LocatorsAligned ==
  /\ GLOBAL_INDEX.t = "array"
       => \A k \in 1..Len(GLOBAL_INDEX.v) :
            Unmodified(GLOBAL_INDEX.v[k].f) => Aligned(GLOBAL_INDEX.v[k])
  /\ \A p \in Callers :
       Searched(p)
         => \A m \in SeqToSet(call[p].matched) :
              (Unmodified(m.f) /\ m.f \notin call[p].unread)
                => \E j \in 1..Len(resp[p].results) :
                     /\ resp[p].results[j].id = Locator(m)
                     /\ resp[p].results[j].name = m.r
                     /\ resp[p].results[j].cin = m.c

C16_Witness ==
  \E p \in Callers :
    /\ Searched(p) /\ call[p].unread = {} /\ hist.origin = "scan"
    /\ \E j \in 1..Len(resp[p].results) :
         /\ resp[p].results[j].id = <<"a.csv", 2>>
         /\ resp[p].results[j].name = <<"Z", "a", "b">>

\* C17: no record of a record set that a scan produced, in the search process
\* or by the build script, from a delimited-text file or from a spreadsheet or
\* JSON file, has the display name 'Unknown'.
C17_NoUnknownRecord ==
  /\ GLOBAL_INDEX.t = "array" => \A k \in 1..Len(GLOBAL_INDEX.v) : Named(GLOBAL_INDEX.v[k])
  /\ snapshot.kind = "array"
       => \A k \in 1..Len(snapshot.body) : Named(parseRecord(snapshot.body[k]))

FromCorpus(e) == e.f # INDEX_NAME

\* C18: the snapshot file is never scanned as a corpus file: no record of the
\* resident record set or of the snapshot that the build script writes has the
\* snapshot file as its source file, and no scan ends in the catch because the
\* snapshot file was read as a corpus file.
C18_SnapshotNotScanned ==
  /\ GLOBAL_INDEX.t = "array" => \A k \in 1..Len(GLOBAL_INDEX.v) : FromCorpus(GLOBAL_INDEX.v[k])
  /\ snapshot.kind = "array"
       => \A k \in 1..Len(snapshot.body) : FromCorpus(parseRecord(snapshot.body[k]))
  /\ INDEX_NAME \notin hist.failed

\* C19: the two module variables encode one of Empty, Building, Ready: the
\* build flag is never true together with a non-null index, and it is true
\* only while a buildIndex execution is under way.
C19_FlagOnlyWhileBuilding ==
  /\ ~(IS_INDEXING /\ truthy(GLOBAL_INDEX))
  /\ IS_INDEXING => \E p \in Callers : pc[p] = "scanning"
  /\ NoBuildInFlight => ~IS_INDEXING

====
